---- MODULE Spec2Model ----
(***************************************************************************)
(* The room explorer of the "show" page: main() walks the remote maze      *)
(* depth first, one request at a time, keeping a cache of rooms (rooms)    *)
(* and a stack used for backtracking (trail).                              *)
(*                                                                         *)
(* The remote service is the environment: it holds the maze (graph) and    *)
(* the room the session stands in (at).  Every await of main() is a        *)
(* position of pc; the step between two awaits is one action.              *)
(***************************************************************************)
EXTENDS Integers, Sequences, FiniteSets, TLC

\* Number of rooms of the remote maze.
NumRooms == 3
\* Longest neighbour list (see) a room record carries.
MaxSee == 2
\* How many times the remote maze may change during one session (SpecDrift).
MaxDrift == 1

VARIABLES
    graph,      \* remote service: room id -> its ordered neighbour ids (see)
    at,         \* remote service: the room the session stands in (0: no session)
    drifts,     \* remote service: number of changes made to the maze so far
    pc,         \* main(): "begin", "loop", "move", "done" or "failed"
    pending,    \* the request in flight or last answered: [kind, xid]
    current,    \* main(): let current
    trail,      \* const trail = []
    rooms,      \* const rooms = {}
    canvas,     \* ids of the polygons appended to the canvas by paint()
    sent,       \* the move requests issued so far: [kind, xid]
    visited,    \* the ids of the rooms that became current, in order
    trail0,     \* trail when the step that issued the pending request began
    rooms0      \* rooms when the step that issued the pending request began

vars == <<graph, at, drifts, pc, pending, current, trail, rooms, canvas,
          sent, visited, trail0, rooms0>>

Rooms == 1 .. NumRooms

Range(s) == {s[i] : i \in 1 .. Len(s)}

\* The room the service designates as the start of a fresh session.
Start == CHOOSE r \in Rooms : \A q \in Rooms : r <= q

\* Neighbour lists the service can return for room r: no repeats, not r itself.
SeeLists(r) ==
    UNION {{s \in [1 .. k -> Rooms \ {r}] :
                \A i, j \in 1 .. k : i # j => s[i] # s[j]} :
           k \in 0 .. MaxSee}

\* ------------------------------------------------------------------------
\* Values

\* const UNKNOWN = true; an absent key reads as undefined.
UNKNOWN == [st |-> "UNKNOWN", see |-> <<>>]
Undefined == [st |-> "undefined", see |-> <<>>]
Known(room) == [st |-> "room", see |-> room.see]

\* A room record as the service returns it (pos and col matter to paint only).
Room(xid) == [xid |-> xid, see |-> graph[xid]]
NoRoom == [xid |-> 0, see |-> <<>>]

\* A trail entry is either a room object (pushed by main) or a bare id
\* (pushed by cache).
Obj(room) == [obj |-> TRUE, xid |-> room.xid, see |-> room.see]
Id(xid) == [obj |-> FALSE, xid |-> xid, see |-> <<>>]

\* ------------------------------------------------------------------------
\* The cache

\* remember() without its test: every id of the list is marked UNKNOWN.
remember_always(rs, xid) == [rs EXCEPT ![xid] = UNKNOWN]

\* remember(xid): mark an id that was never seen as UNKNOWN.
remember(rs, xid) ==
    IF rs[xid] = Undefined THEN [rs EXCEPT ![xid] = UNKNOWN] ELSE rs

\* room.see.forEach(remember)
RECURSIVE rememberAll(_, _)
rememberAll(rs, see) ==
    IF see = <<>> THEN rs
    ELSE rememberAll(remember(rs, Head(see)), Tail(see))

\* The test of cache() with one of its two comparisons lost, or with none left.
cacheTest_unknownOnly(rs, room) == rs[room.xid] = UNKNOWN
cacheTest_undefinedOnly(rs, room) == rs[room.xid] = Undefined
cacheTest_always(rs, room) == TRUE

\* The test of cache(): room && rooms[room.xid] === undefined
\*                      || rooms[room.xid] === UNKNOWN
cacheTest(rs, room) ==
    rs[room.xid] = Undefined \/ rs[room.xid] = UNKNOWN

\* cache() with its trail.push outside the test: every fetched room is pushed.
cache_pushAlways(rs, tr, room) ==
    IF cacheTest(rs, room)
    THEN [rooms |-> rememberAll([rs EXCEPT ![room.xid] = Known(room)], room.see),
          trail |-> Append(tr, Id(room.xid))]
    ELSE [rooms |-> rs, trail |-> Append(tr, Id(room.xid))]

\* cache(room): the cache and the trail after the call.
cache(rs, tr, room) ==
    IF cacheTest(rs, room)
    THEN [rooms |-> rememberAll([rs EXCEPT ![room.xid] = Known(room)], room.see),
          trail |-> Append(tr, Id(room.xid))]
    ELSE [rooms |-> rs, trail |-> tr]

\* paint(room): one more polygon on the canvas.
paint(cv, room) == Append(cv, room.xid)

\* ------------------------------------------------------------------------
\* main()

\* The predicate of find() written as rooms[xid] !== undefined.
isUnknown_seen(rs, xid) == rs[xid] # Undefined

\* xid => rooms[xid] === UNKNOWN
isUnknown(rs, xid) == rs[xid] = UNKNOWN

\* find() scanning the list from its end.
find_last(rs, see) ==
    IF \E i \in 1 .. Len(see) : isUnknown(rs, see[i])
    THEN see[CHOOSE i \in 1 .. Len(see) :
                /\ isUnknown(rs, see[i])
                /\ \A j \in i + 1 .. Len(see) : ~isUnknown(rs, see[j])]
    ELSE 0

\* find() looking at the first neighbour only.
find_firstOnly(rs, see) ==
    IF Len(see) > 0 /\ isUnknown(rs, see[1]) THEN see[1] ELSE 0

\* current.see.find(xid => rooms[xid] === UNKNOWN); 0 stands for undefined.
find(rs, see) ==
    IF \E i \in 1 .. Len(see) : isUnknown(rs, see[i])
    THEN see[CHOOSE i \in 1 .. Len(see) :
                /\ isUnknown(rs, see[i])
                /\ \A j \in 1 .. i - 1 : ~isUnknown(rs, see[j])]
    ELSE 0

\* The inner loop without its indexOf test: any popped room is moved to.
adjacent_any(room, back) == back.obj

\* current.see.indexOf(back.xid) >= 0; a bare id has no xid property.
adjacent(room, back) == back.obj /\ back.xid \in Range(room.see)

\* The inner loop taking the oldest entry that current sees, not the newest.
backIndex_oldest(tr, room) ==
    IF \E i \in 1 .. Len(tr) : adjacent(room, tr[i])
    THEN CHOOSE i \in 1 .. Len(tr) :
            /\ adjacent(room, tr[i])
            /\ \A j \in 1 .. i - 1 : ~adjacent(room, tr[j])
    ELSE 0

\* The index of the entry the inner while loop stops at, 0 if it pops them all.
backIndex(tr, room) ==
    IF \E i \in 1 .. Len(tr) : adjacent(room, tr[i])
    THEN CHOOSE i \in 1 .. Len(tr) :
            /\ adjacent(room, tr[i])
            /\ \A j \in i + 1 .. Len(tr) : ~adjacent(room, tr[j])
    ELSE 0

\* The mazes of rooms 1 .. n: one neighbour list for each room.
RECURSIVE Mazes(_)
Mazes(n) ==
    IF n = 0 THEN {<<>>}
    ELSE {Append(g, see) : g \in Mazes(n - 1), see \in SeeLists(n)}

Init ==
    /\ graph \in Mazes(NumRooms)
    /\ at = 0
    /\ drifts = 0
    /\ pc = "begin"
    /\ pending = [kind |-> "begin", xid |-> 0]
    /\ current = NoRoom
    /\ trail = <<>>
    /\ rooms = [r \in Rooms |-> Undefined]
    /\ canvas = <<>>
    /\ sent = <<>>
    /\ visited = <<>>
    /\ trail0 = <<>>
    /\ rooms0 = [r \in Rooms |-> Undefined]

\* begin() resolves: req("GET", undefined, true).then(cache)
BeginResolve ==
    /\ pc = "begin"
    /\ LET room == Room(Start)
           c == cache(rooms, trail, room)
       IN /\ at' = Start
          /\ rooms' = c.rooms
          /\ trail' = c.trail
          /\ current' = room
          /\ visited' = Append(visited, room.xid)
    /\ pc' = "loop"
    /\ UNCHANGED <<graph, drifts, pending, canvas, sent, trail0, rooms0>>

\* begin() rejects: the response is not ok, the catch handler alerts and
\* returns undefined, JSON.parse(undefined) throws and main() ends.
BeginReject ==
    /\ pc = "begin"
    /\ pc' = "failed"
    /\ UNCHANGED <<graph, at, drifts, pending, current, trail, rooms, canvas,
                   sent, visited, trail0, rooms0>>

\* An unknown neighbour exists: trail.push(current); move(xid) is issued.
Forward ==
    /\ pc = "loop"
    /\ find(rooms, current.see) # 0
    /\ LET xid == find(rooms, current.see)
       IN /\ trail' = Append(trail, Obj(current))
          /\ pending' = [kind |-> "forward", xid |-> xid]
          /\ sent' = Append(sent, [kind |-> "forward", xid |-> xid])
    /\ trail0' = trail
    /\ rooms0' = rooms
    /\ pc' = "move"
    /\ UNCHANGED <<graph, at, drifts, current, rooms, canvas, visited>>

\* No unknown neighbour, trail not empty, and the inner loop finds a room of
\* the trail that current sees: everything above it is popped with it and
\* move(back.xid) is issued.
Backtrack ==
    /\ pc = "loop"
    /\ find(rooms, current.see) = 0
    /\ Len(trail) > 0
    /\ backIndex(trail, current) # 0
    /\ LET i == backIndex(trail, current)
       IN /\ trail' = SubSeq(trail, 1, i - 1)
          /\ pending' = [kind |-> "back", xid |-> trail[i].xid]
          /\ sent' = Append(sent, [kind |-> "back", xid |-> trail[i].xid])
    /\ trail0' = trail
    /\ rooms0' = rooms
    /\ pc' = "move"
    /\ UNCHANGED <<graph, at, drifts, current, rooms, canvas, visited>>

\* The inner loop with its move outside the adjacency test: having popped
\* every entry it moves to the one popped last.
BacktrackExhaust_moves ==
    /\ pc = "loop"
    /\ find(rooms, current.see) = 0
    /\ Len(trail) > 0
    /\ backIndex(trail, current) = 0
    /\ trail' = <<>>
    /\ pending' = [kind |-> "back", xid |-> trail[1].xid]
    /\ sent' = Append(sent, [kind |-> "back", xid |-> trail[1].xid])
    /\ trail0' = trail
    /\ rooms0' = rooms
    /\ pc' = "move"
    /\ UNCHANGED <<graph, at, drifts, current, rooms, canvas, visited>>

\* No unknown neighbour, trail not empty, and the inner loop pops every entry
\* without finding a room that current sees; the outer loop goes round again.
BacktrackExhaust ==
    /\ pc = "loop"
    /\ find(rooms, current.see) = 0
    /\ Len(trail) > 0
    /\ backIndex(trail, current) = 0
    /\ trail' = <<>>
    /\ UNCHANGED <<graph, at, drifts, pc, pending, current, rooms, canvas,
                   sent, visited, trail0, rooms0>>

\* The last branch of the loop without its break: the loop spins.
Break_spin ==
    /\ pc = "loop"
    /\ find(rooms, current.see) = 0
    /\ Len(trail) = 0
    /\ UNCHANGED vars

\* No unknown neighbour and an empty trail: break, main() returns.
Break ==
    /\ pc = "loop"
    /\ find(rooms, current.see) = 0
    /\ Len(trail) = 0
    /\ pc' = "done"
    /\ UNCHANGED <<graph, at, drifts, pending, current, trail, rooms, canvas,
                   sent, visited, trail0, rooms0>>

\* The service accepts a move only to a neighbour of the room it stands in.
validMove(xid) == at \in Rooms /\ xid \in Range(graph[at])

\* move(xid) resolves: req("PUT", {xid: xid}).then(cache).then(paint)
MoveResolve ==
    /\ pc = "move"
    /\ validMove(pending.xid)
    /\ LET room == Room(pending.xid)
           c == cache(rooms, trail, room)
       IN /\ at' = pending.xid
          /\ rooms' = c.rooms
          /\ trail' = c.trail
          /\ canvas' = paint(canvas, room)
          /\ current' = room
          /\ visited' = Append(visited, room.xid)
    /\ pc' = "loop"
    /\ UNCHANGED <<graph, drifts, pending, sent, trail0, rooms0>>

\* A rejected move whose error body is parsed and merged into the cache as a
\* room without neighbours.
MoveReject_merges ==
    /\ pc = "move"
    /\ rooms' = [rooms EXCEPT ![pending.xid] = Known(NoRoom)]
    /\ pc' = "failed"
    /\ UNCHANGED <<graph, at, drifts, pending, current, trail, canvas,
                   sent, visited, trail0, rooms0>>

\* A rejected move that is swallowed: the loop goes on from the old current
\* room.
MoveReject_retries ==
    /\ pc = "move"
    /\ pc' = "loop"
    /\ UNCHANGED <<graph, at, drifts, pending, current, trail, rooms, canvas,
                   sent, visited, trail0, rooms0>>

\* move(xid) rejects (404 for an invalid move, or any other failure, in which
\* case the service may or may not have made the move): as for begin(),
\* JSON.parse(undefined) throws, cache and paint are skipped and main() ends.
MoveReject ==
    /\ pc = "move"
    /\ at' \in {at} \cup (IF validMove(pending.xid) THEN {pending.xid} ELSE {})
    /\ pc' = "failed"
    /\ UNCHANGED <<graph, drifts, pending, current, trail, rooms, canvas,
                   sent, visited, trail0, rooms0>>

\* The list without its i-th id.
without(see, i) == SubSeq(see, 1, i - 1) \o SubSeq(see, i + 1, Len(see))

\* The remote maze changes behind the explorer's back: while a move back to
\* a room fetched before is pending, one of the passages of that room closes,
\* so that the record returned differs from the one fetched before.
Drift ==
    /\ pc = "move"
    /\ drifts < MaxDrift
    /\ rooms[pending.xid].st = "room"
    /\ \E i \in 1 .. Len(graph[pending.xid]) :
          graph' = [graph EXCEPT ![pending.xid] = without(@, i)]
    /\ drifts' = drifts + 1
    /\ UNCHANGED <<at, pc, pending, current, trail, rooms, canvas,
                   sent, visited, trail0, rooms0>>

Next ==
    \/ BeginResolve
    \/ BeginReject
    \/ Forward
    \/ Backtrack
    \/ BacktrackExhaust
    \/ Break
    \/ MoveResolve
    \/ MoveReject

\* The explorer against a maze that does not change.
Spec == Init /\ [][Next]_vars

\* The same, with every enabled step of main() eventually taken.
FairSpec == Spec /\ WF_vars(Next)

NextDrift ==
    \/ Next
    \/ Drift

\* The explorer against a maze that may change during the session.
SpecDrift == Init /\ [][NextDrift]_vars

\* ------------------------------------------------------------------------
\* The maze as a graph

\* The rooms that can be reached from the starting room.
Reach ==
    LET R[k \in 0 .. NumRooms] ==
            IF k = 0 THEN {Start}
            ELSE R[k - 1] \cup UNION {Range(graph[r]) : r \in R[k - 1]}
    IN R[NumRooms]

\* Every edge can be walked both ways.
Symmetric ==
    \A a, b \in Rooms : b \in Range(graph[a]) => a \in Range(graph[b])

\* The undirected edges of the part of the maze reachable from the start.
Edges == UNION {{{a, b} : b \in Range(graph[a])} : a \in Reach}

\* The ids of the entries of a trail.
RECURSIVE TrailIds(_)
TrailIds(tr) ==
    IF tr = <<>> THEN <<>> ELSE <<Head(tr).xid>> \o TrailIds(Tail(tr))

\* The targets of the forward moves among the first n requests.
ForwardTargets(n) ==
    {sent[i].xid : i \in {j \in 1 .. n : sent[j].kind = "forward"}}

\* Unseen < Unknown < Known
Rank(entry) ==
    IF entry = Undefined THEN 0 ELSE IF entry = UNKNOWN THEN 1 ELSE 2

\* ------------------------------------------------------------------------
\* Properties

\* C1: on a maze with symmetric edges, when main() has returned every room
\* reachable from the starting room is Known, no cache entry is Unknown and
\* the trail is empty.
C1_HaltExplored ==
    (pc = "done" /\ Symmetric) =>
        /\ \A r \in Reach : rooms[r].st = "room"
        /\ \A r \in Rooms : rooms[r] # UNKNOWN
        /\ trail = <<>>

C1_Witness ==
    /\ pc = "done"
    /\ Symmetric
    /\ Cardinality(Reach) >= 3
    /\ \A r \in Reach : rooms[r].st = "room"
    /\ trail = <<>>

\* C2: a run in which no request fails reaches the end of main(); it does
\* not go on for ever moving forward and backtracking.
C2_Terminates == <>(pc = "failed") \/ <>(pc = "done")

C2_Witness ==
    /\ pc = "done"
    /\ \E i, j \in 1 .. Len(sent) :
          i < j /\ sent[i].kind = "back" /\ sent[j].kind = "forward"

\* C3 as stated: when a request has failed, the cache and the trail are as
\* they were when the step that issued the request began.
C3_Original ==
    pc = "failed" => (rooms = rooms0 /\ trail = trail0)

\* C3 amended: when a request has failed the cache is as it was when the step
\* that issued the request began, and the trail differs from the trail at
\* that time only by what main() did before it sent the request: nothing for
\* begin(), the push of current for a forward move, the pops of the inner
\* loop for a backtrack move.
C3_FailureKeeps ==
    pc = "failed" =>
        /\ rooms = rooms0
        /\ pending.kind = "begin" => trail = trail0 /\ trail = <<>>
        /\ pending.kind = "forward" => trail = Append(trail0, Obj(current))
        /\ pending.kind = "back" =>
              /\ Len(trail) < Len(trail0)
              /\ trail = SubSeq(trail0, 1, Len(trail))
              /\ trail0[Len(trail) + 1] = Obj([xid |-> pending.xid,
                                               see |-> trail0[Len(trail) + 1].see])

C3_Witness ==
    /\ pc = "failed"
    /\ pending.kind = "back"
    /\ Len(trail0) - Len(trail) >= 2
    /\ rooms = rooms0

\* C4 as stated: when begin() has resolved the trail is empty.
C4_Original ==
    [][(pc = "begin" /\ pc' = "loop") => trail' = <<>>]_vars

\* C4 amended: when begin() has resolved the starting room is Known and
\* current, and the trail holds one entry, the id of the starting room.
C4_TrailAfterBegin ==
    [][(pc = "begin" /\ pc' = "loop") =>
            /\ rooms'[Start] = Known(Room(Start))
            /\ current' = Room(Start)
            /\ trail' = <<Id(Start)>>]_vars

C4_Witness ==
    /\ pc = "loop"
    /\ sent = <<>>
    /\ current.xid = Start
    /\ rooms[Start].st = "room"
    /\ trail = <<Id(Start)>>

\* C5: paint() is called once for every successful fetch, the one of begin()
\* included: the canvas holds as many polygons as rooms have become current.
C5_Original == Len(canvas) = Len(visited)

\* The maze A -> [B, C], B -> [A], C -> [A] with A = 1, B = 2, C = 3.
IsFork ==
    /\ NumRooms >= 3
    /\ graph[1] = <<2, 3>>
    /\ graph[2] = <<1>>
    /\ graph[3] = <<1>>
    /\ \A r \in Rooms : r > 3 => graph[r] = <<>>

\* C6: on the maze A -> [B, C], B -> [A], C -> [A] the run enters A, B, A, C,
\* A with trails [], [A], [], [A], [] and ends; paint() is called five times
\* and four move requests are sent.
C6_Original ==
    (IsFork /\ pc \in {"loop", "done"}) =>
        /\ visited \in {<<1>>, <<1, 2>>, <<1, 2, 1>>, <<1, 2, 1, 3>>,
                        <<1, 2, 1, 3, 1>>}
        /\ Len(visited) \in {1, 3, 5} => TrailIds(trail) = <<>>
        /\ Len(visited) \in {2, 4} => TrailIds(trail) = <<1>>
        /\ pc = "done" =>
              /\ visited = <<1, 2, 1, 3, 1>>
              /\ Len(canvas) = 5
              /\ Len(sent) = 4

\* C7: the state of a cache entry only moves forward, from Unseen to Unknown
\* to Known: an entry that a step turns into Unknown was Unseen, and an entry
\* that is Unknown or Known is never taken back.
C7_Monotone ==
    [][\A r \in Rooms :
          /\ Rank(rooms'[r]) >= Rank(rooms[r])
          /\ (rooms'[r] = UNKNOWN /\ rooms[r] # UNKNOWN) => rooms[r] = Undefined]_vars

C7_Witness ==
    /\ pc = "loop"
    /\ current.xid # Start
    /\ Start \in Range(current.see)
    /\ rooms[Start].st = "room"
    /\ \E r \in Rooms : rooms[r] = UNKNOWN

\* C8: the record of a Known room is never replaced: no step changes it, and
\* a move that fetches a Known room again changes no cache entry at all, even
\* when the record returned differs from the cached one.
C8_KnownKept ==
    [][/\ \A r \in Rooms : rooms[r].st = "room" => rooms'[r] = rooms[r]
       /\ (pc = "move" /\ pc' = "loop" /\ rooms[pending.xid].st = "room")
             => rooms' = rooms]_vars

C8_Witness ==
    /\ pc = "loop"
    /\ pending.kind = "back"
    /\ rooms[current.xid].st = "room"
    /\ current.see # rooms[current.xid].see

\* C9: a forward move is never aimed at a Known room, and no room is the
\* target of two forward moves.
C9_ForwardOnce ==
    [][(pc = "loop" /\ pc' = "move" /\ pending'.kind = "forward") =>
            /\ rooms[pending'.xid].st # "room"
            /\ pending'.xid \notin ForwardTargets(Len(sent))]_vars

C9_Witness ==
    /\ pc = "move"
    /\ pending.kind = "forward"
    /\ ForwardTargets(Len(sent) - 1) # {}
    /\ \E i \in 1 .. Len(current.see) :
          /\ rooms[current.see[i]].st = "room"
          /\ \E j \in i + 1 .. Len(current.see) : current.see[j] = pending.xid

\* C10: on a maze with symmetric edges no more than 2 * E move requests are
\* sent, E being the number of edges of the part reachable from the start.
C10_MoveBound ==
    Symmetric => Len(sent) <= 2 * Cardinality(Edges)

C10_Witness ==
    /\ pc = "done"
    /\ Symmetric
    /\ Cardinality(Edges) >= 2
    /\ Len(sent) = 2 * Cardinality(Edges)

\* C11: whenever the current room has an Unknown neighbour the step is a
\* forward move, and its target is the first id of current.see whose entry is
\* UNKNOWN: every id before it in the list is not Unknown.
C11_FirstUnknown ==
    [][(pc = "loop" /\ \E i \in 1 .. Len(current.see) :
                            rooms[current.see[i]] = UNKNOWN) =>
            /\ pc' = "move"
            /\ pending'.kind = "forward"
            /\ \E i \in 1 .. Len(current.see) :
                  /\ pending'.xid = current.see[i]
                  /\ rooms[current.see[i]] = UNKNOWN
                  /\ \A j \in 1 .. i - 1 : rooms[current.see[j]] # UNKNOWN]_vars

C11_Witness ==
    /\ pc = "move"
    /\ pending.kind = "forward"
    /\ Len(current.see) >= 2
    /\ pending.xid = current.see[1]
    /\ rooms[current.see[2]] = UNKNOWN

\* A step in which begin() or move() resolves and cache() runs.
Fetched == pc \in {"begin", "move"} /\ pc' = "loop"

\* C13 as stated: the trail changes only by the push of the room left by a
\* forward move and by the pops of backtracking; cache() does not change it,
\* so that a successful forward move makes the trail one entry longer.
C13_Original ==
    [][/\ Fetched => trail' = trail
       /\ (Fetched /\ pending.kind = "forward") => Len(trail') = Len(trail0) + 1]_vars

\* C13 amended: the trail changes only by the push of the room left when a
\* forward move is sent, by the push of the id of a room that cache() merges
\* (begin() and every successful forward move), and by the pops of
\* backtracking; a successful forward move makes the trail two entries
\* longer, and fetching a Known room again leaves it as it is.
C13_TrailChanges ==
    [][/\ (pc = "loop" /\ pc' = "move" /\ pending'.kind = "forward")
             => trail' = Append(trail, Obj(current))
       /\ (pc = "loop" /\ ~(pc' = "move" /\ pending'.kind = "forward"))
             => /\ Len(trail') <= Len(trail)
                /\ trail' = SubSeq(trail, 1, Len(trail'))
       /\ (Fetched /\ rooms[current'.xid].st # "room")
             => trail' = Append(trail, Id(current'.xid))
       /\ (Fetched /\ rooms[current'.xid].st = "room") => trail' = trail
       /\ (Fetched /\ pending.kind = "forward")
             => Len(trail') = Len(trail0) + 2
       /\ (pc \in {"begin", "move"} /\ ~Fetched) => trail' = trail
       /\ pc \in {"done", "failed"} => trail' = trail]_vars

C13_Witness ==
    /\ pc = "loop"
    /\ pending.kind = "forward"
    /\ Len(trail) = Len(trail0) + 2
    /\ trail[Len(trail)] = Id(current.xid)
    /\ trail[Len(trail) - 1].obj

\* C14: when the current room has no Unknown neighbour and the trail holds a
\* room that current sees, the step pops the trail down to the entry pushed
\* last whose id is in current.see, sends one move to that id and leaves the
\* entries below it on the trail, in their order.
C14_BacktrackStep ==
    [][(/\ pc = "loop"
        /\ \A i \in 1 .. Len(current.see) : rooms[current.see[i]] # UNKNOWN
        /\ \E i \in 1 .. Len(trail) :
              trail[i].obj /\ trail[i].xid \in Range(current.see)) =>
            \E i \in 1 .. Len(trail) :
               /\ trail[i].obj
               /\ trail[i].xid \in Range(current.see)
               /\ \A j \in i + 1 .. Len(trail) :
                     trail[j].xid \notin Range(current.see)
               /\ trail' = SubSeq(trail, 1, i - 1)
               /\ pc' = "move"
               /\ pending' = [kind |-> "back", xid |-> trail[i].xid]
               /\ sent' = Append(sent, pending')
               /\ current' = current]_vars

C14_Witness ==
    /\ pc = "move"
    /\ pending.kind = "back"
    /\ Len(trail0) - Len(trail) >= 2
    /\ \E j \in 1 .. Len(trail) : adjacent(current, trail[j])

\* The current room has no Unknown neighbour and sees no room of the trail.
DeadEnd ==
    /\ pc = "loop"
    /\ \A i \in 1 .. Len(current.see) : rooms[current.see[i]] # UNKNOWN
    /\ \A i \in 1 .. Len(trail) :
          ~(trail[i].obj /\ trail[i].xid \in Range(current.see))

\* C15: at a dead end the backtrack scan empties the trail and main() then
\* returns: the current room and the cache stay as they are and no request
\* is sent, also when Unknown rooms remain.
C15_DeadEndEnds ==
    [][DeadEnd =>
            /\ IF trail = <<>> THEN pc' = "done" ELSE pc' = "loop" /\ DeadEnd'
            /\ trail' = <<>>
            /\ current' = current
            /\ rooms' = rooms
            /\ sent' = sent
            /\ canvas' = canvas]_vars

C15_Witness ==
    /\ pc = "done"
    /\ \E r \in Rooms : rooms[r] = UNKNOWN
    /\ ~Symmetric
    /\ current.xid # Start
    /\ trail = <<>>

\* C16: against a maze that does not change, every move request asks for a
\* neighbour of the room the service stands in, and as long as no request
\* has failed the explorer's current room is the service's: a move is never
\* refused as not found.
C16_MovesValid ==
    /\ pc = "move" =>
          /\ at = current.xid
          /\ pending.xid \in Range(graph[at])
          /\ validMove(pending.xid)
    /\ pc \in {"loop", "done"} => at = current.xid

C16_Witness ==
    /\ pc = "move"
    /\ pending.kind = "back"
    /\ ~Symmetric
    /\ at = current.xid
    /\ validMove(pending.xid)

\* What the explorer holds and has done: all but the remote service.
explorer == <<pc, pending, current, trail, rooms, canvas, sent, visited>>

\* C17: a request in flight either resolves, the room asked for becoming
\* current, or is rejected, and then main() has ended: the rejection changes
\* neither cache nor trail nor canvas, and after it no request is sent, no
\* room is merged or painted and the loop does not go on from the old room.
C17_FailureEnds ==
    [][/\ pc \in {"begin", "move"} =>
             \/ /\ pc' = "loop"
                /\ current'.xid = (IF pc = "begin" THEN Start ELSE pending.xid)
                /\ visited' = Append(visited, current'.xid)
             \/ /\ pc' = "failed"
                /\ <<current, trail, rooms, canvas, sent, visited>>'
                      = <<current, trail, rooms, canvas, sent, visited>>
             \/ explorer' = explorer
       /\ pc = "failed" => explorer' = explorer]_vars

C17_Witness ==
    /\ pc = "failed"
    /\ pending.kind = "forward"
    /\ rooms[pending.xid] = UNKNOWN
    /\ Len(visited) >= 2
    /\ Len(canvas) = Len(visited) - 1

====
